---- MODULE Spec2Model ----
(***************************************************************************)
(* LocalBridge (PixelBridge): screen capture -> H.264 -> WebRTC track,     *)
(* with an HTTP /offer negotiation endpoint and a data-channel input       *)
(* handler.  The model follows src/src/main.rs, capture.rs, encoder.rs and *)
(* input.rs.  The webrtc, windows-capture, openh264 and tokio crates are   *)
(* external: their calls are steps whose outcome the environment chooses.  *)
(***************************************************************************)
EXTENDS Integers, Sequences, FiniteSets, TLC

\* ------------------------------------------------------------------ bounds
MaxOffers == 2
MaxFrames == 3
MaxMsgs == 3
MaxHalf == 2

Requests == 1..MaxOffers

\* A value that is no request and no identifier.
None == MaxOffers + 1

\* uuid::Uuid::new_v4() values; as many as there are requests to mint them.
Ids == 1..MaxOffers

\* The sdp strings a client may post: a usable offer, the empty string, text
\* that is not SDP, and SDP that parses but cannot be applied.
SdpKinds == {"good", "empty", "malformed", "inapplicable"}

VARIABLES
    server,     \* main(): "starting" | "listening" | "bind_failed"
    peers,      \* AppState.peers: session id -> peer connection (its request)
    lock,       \* holder of the AppState.peers mutex, or None
    offer,      \* per request: the position and locals of handle_offer/do_offer
                \* (sdp is "none" when no body is held; readAt is the state
                \* of ICE gathering when the returned description was read)
    conn,       \* per request: its RTCPeerConnection "none" | "new" | "closed"
    log,        \* tracing records written so far: <<kind, n>>
    capture,    \* capture task: "spawned" | "starting" | "capturing" | "failed" | "closed"
    captureErr, \* why the capture task failed, "none" while it has not
    cb,         \* position of on_frame_arrived: "idle" | "encode" | "spawn" | "return"
    frames,     \* frames delivered to on_frame_arrived so far
    tasks,      \* the sample-write tasks spawned, in spawn order
    encoded,    \* what encode_bgra returned for each frame it was given, in
                \* call order: "nal" | "empty" | "err"
    chan,       \* input data channel: "none" | "open"
    handler,    \* whether the on_message handler is installed
    received,   \* payloads delivered on the data channel, in arrival order
    injected,   \* inject() calls made, in call order: [msg, ev]
    width,      \* H264Encoder.width
    height,     \* H264Encoder.height
    bgra,       \* the raw BGRA bytes of the frame last given to encode_bgra
    yuv,        \* the bytes bgra_to_yuv420 returned for it, <<>> before any
    changed     \* whether a pixel of the screen has changed since the first frame

offerVars == <<server, peers, lock, offer, conn>>
captureVars == <<capture, captureErr, cb, frames, tasks, encoded>>
inputVars == <<chan, handler, received, injected>>
pixelVars == <<width, height, bgra, yuv, changed>>
vars == <<server, peers, lock, offer, conn, log, capture, captureErr, cb,
          frames, tasks, encoded, chan, handler, received, injected,
          width, height, bgra, yuv, changed>>

\* ------------------------------------------------------------ negotiation

\* The locals of one handle_offer call before the request has arrived.
OfferInit ==
    [pc |-> "idle", sdp |-> "none", id |-> None, track |-> FALSE,
     dcHandler |-> FALSE, remote |-> FALSE, answer |-> FALSE,
     local |-> FALSE, gather |-> "new", readAt |-> "none", result |-> "none",
     resp |-> "none"]

Set(r, rec) == [offer EXCEPT ![r] = rec]

\* A `?` that returns Err from do_offer; the body it owned is dropped.
Fail(r) == Set(r, [offer[r] EXCEPT !.pc = "respond", !.result = "err",
                                   !.sdp = "none"])

\* Identifiers in use; Uuid::new_v4() returns one that is not.
Minted == {offer[r].id : r \in Requests} \ {None}

NewV4 == Ids \ Minted

\* Insert, as a store into a fresh map would do it: earlier entries are lost.
InsertIntoFresh(m, id, pc) == [k \in {id} |-> pc]

\* HashMap::insert(id, pc): a map that differs from m at id only.
Insert(m, id, pc) == [k \in DOMAIN m \cup {id} |-> IF k = id THEN pc ELSE m[k]]

\* LockAfterInsert, had the guard been bound to a local that lives to the end
\* of do_offer.
LockAfterInsertHeld(r) == r

\* The MutexGuard of `state.peers.lock().await` is a temporary: it is dropped
\* at the end of the insert statement.
LockAfterInsert(r) == None

\* RTCSessionDescription::offer(sdp) parses the sdp text.
ParsesAsOffer(sdp) == sdp \in {"good", "inapplicable"}

\* pc.set_remote_description(offer) accepts the parsed offer.
RemoteAccepts(sdp) == sdp = "good"

\* GatherRecvReady, had the answer been returned without waiting.
GatherRecvReadyAtOnce(g) == TRUE

\* gather.recv() returns once gathering has completed.
GatherRecvReady(g) == g = "complete"

\* POST /offer arrives with a body; do_offer builds its API object.
HandleOffer(r, sdp) ==
    /\ server = "listening"
    /\ offer[r].pc = "idle"
    /\ offer' = Set(r, [offer[r] EXCEPT !.pc = "new_pc", !.sdp = sdp])
    /\ UNCHANGED <<server, peers, lock, conn, log, captureVars, inputVars, pixelVars>>

\* AfterNewPeerConnection, had the track been left out of the connection.
AfterNewPeerConnectionNoTrack == "lock"

\* What do_offer does with the connection it has created: it adds the track.
AfterNewPeerConnection == "add_track"

\* api.new_peer_connection(config).await?
NewPeerConnection(r, ok) ==
    /\ offer[r].pc = "new_pc"
    /\ IF ok
       THEN /\ offer' = Set(r, [offer[r] EXCEPT !.pc = AfterNewPeerConnection])
            /\ conn' = [conn EXCEPT ![r] = "new"]
       ELSE /\ offer' = Fail(r)
            /\ conn' = conn
    /\ UNCHANGED <<server, peers, lock, log, captureVars, inputVars, pixelVars>>

\* pc.add_track(video_track).await?; pc.on_data_channel(..)
AddTrack(r, ok) ==
    /\ offer[r].pc = "add_track"
    /\ offer' = IF ok
                THEN Set(r, [offer[r] EXCEPT !.pc = "lock", !.track = TRUE,
                                             !.dcHandler = TRUE])
                ELSE Fail(r)
    /\ UNCHANGED <<server, peers, lock, conn, log, captureVars, inputVars, pixelVars>>

\* let id = Uuid::new_v4(); state.peers.lock().await
LockPeers(r) ==
    /\ offer[r].pc = "lock"
    /\ lock = None
    /\ lock' = r
    /\ \E id \in NewV4 :
         offer' = Set(r, [offer[r] EXCEPT !.pc = "insert", !.id = id])
    /\ UNCHANGED <<server, peers, conn, log, captureVars, inputVars, pixelVars>>

\* .insert(id.clone(), pc.clone()); the guard is dropped.
InsertPeer(r) ==
    /\ offer[r].pc = "insert"
    /\ lock = r
    /\ peers' = Insert(peers, offer[r].id, r)
    /\ lock' = LockAfterInsert(r)
    /\ offer' = Set(r, [offer[r] EXCEPT !.pc = "set_remote"])
    /\ UNCHANGED <<server, conn, log, captureVars, inputVars, pixelVars>>

\* RTCSessionDescription::offer(body.sdp)?; pc.set_remote_description(offer).await?
\* body.sdp is moved into the description.
SetRemoteDescription(r) ==
    /\ offer[r].pc = "set_remote"
    /\ offer' = IF ParsesAsOffer(offer[r].sdp) /\ RemoteAccepts(offer[r].sdp)
                THEN Set(r, [offer[r] EXCEPT !.pc = "create_answer",
                                             !.remote = TRUE, !.sdp = "none"])
                ELSE Fail(r)
    /\ UNCHANGED <<server, peers, lock, conn, log, captureVars, inputVars, pixelVars>>

\* pc.create_answer(None).await?
CreateAnswer(r, ok) ==
    /\ offer[r].pc = "create_answer"
    /\ offer' = IF ok
                THEN Set(r, [offer[r] EXCEPT !.pc = "set_local", !.answer = TRUE])
                ELSE Fail(r)
    /\ UNCHANGED <<server, peers, lock, conn, log, captureVars, inputVars, pixelVars>>

\* pc.gathering_complete_promise().await; pc.set_local_description(answer).await?
\* Setting the local description starts ICE candidate gathering.
SetLocalDescription(r, ok) ==
    /\ offer[r].pc = "set_local"
    /\ offer' = IF ok
                THEN Set(r, [offer[r] EXCEPT !.pc = "recv", !.local = TRUE,
                                             !.gather = "gathering"])
                ELSE Fail(r)
    /\ UNCHANGED <<server, peers, lock, conn, log, captureVars, inputVars, pixelVars>>

\* The ICE agent finishes gathering candidates (environment).
GatherComplete(r) ==
    /\ offer[r].gather = "gathering"
    /\ offer' = Set(r, [offer[r] EXCEPT !.gather = "complete"])
    /\ UNCHANGED <<server, peers, lock, conn, log, captureVars, inputVars, pixelVars>>

\* The ICE agent stalls: gathering never completes (environment).
GatherStall(r) ==
    /\ offer[r].gather = "gathering"
    /\ offer' = Set(r, [offer[r] EXCEPT !.gather = "stalled"])
    /\ UNCHANGED <<server, peers, lock, conn, log, captureVars, inputVars, pixelVars>>

\* let _ = gather.recv().await
GatherRecv(r) ==
    /\ offer[r].pc = "recv"
    /\ GatherRecvReady(offer[r].gather)
    /\ offer' = Set(r, [offer[r] EXCEPT !.pc = "local_desc"])
    /\ UNCHANGED <<server, peers, lock, conn, log, captureVars, inputVars, pixelVars>>

\* pc.local_description().await.ok_or_else(..)?; info!("Peer {id} connected"); Ok(local)
LocalDescription(r) ==
    /\ offer[r].pc = "local_desc"
    /\ IF offer[r].local
       THEN /\ offer' = Set(r, [offer[r] EXCEPT !.pc = "respond", !.result = "ok",
                                                !.readAt = offer[r].gather])
            /\ log' = log \cup {<<"peer_connected", r>>}
       ELSE /\ offer' = Fail(r)
            /\ log' = log
    /\ UNCHANGED <<server, peers, lock, conn, captureVars, inputVars, pixelVars>>

\* handle_offer's match: the JSON answer, or the logged JSON error.  A guard
\* still owned by do_offer is dropped when it returns.
Respond(r) ==
    /\ offer[r].pc = "respond"
    /\ IF offer[r].result = "ok"
       THEN /\ offer' = Set(r, [offer[r] EXCEPT !.pc = "done", !.resp = "answer"])
            /\ log' = log
       ELSE /\ offer' = Set(r, [offer[r] EXCEPT !.pc = "done", !.resp = "error"])
            /\ log' = log \cup {<<"offer_error", r>>}
    /\ lock' = IF lock = r THEN None ELSE lock
    /\ UNCHANGED <<server, peers, conn, captureVars, inputVars, pixelVars>>

\* The remote peer of an answered session disconnects (environment).  No
\* handler is registered for it: nothing in the program reacts.
PeerDisconnect(r) ==
    /\ offer[r].resp = "answer"
    /\ conn[r] = "new"
    /\ conn' = [conn EXCEPT ![r] = "closed"]
    /\ UNCHANGED <<server, peers, lock, offer, log, captureVars, inputVars, pixelVars>>

\* TcpListener::bind(addr).await?; axum::serve(listener, app)
Bind(ok) ==
    /\ server = "starting"
    /\ server' = IF ok THEN "listening" ELSE "bind_failed"
    /\ UNCHANGED <<peers, lock, offer, conn, log, captureVars, inputVars, pixelVars>>

\* The steps of one request's handle_offer/do_offer.
OfferStep(r) ==
    \/ \E sdp \in SdpKinds : HandleOffer(r, sdp)
    \/ \E ok \in BOOLEAN : NewPeerConnection(r, ok)
    \/ \E ok \in BOOLEAN : AddTrack(r, ok)
    \/ LockPeers(r)
    \/ InsertPeer(r)
    \/ SetRemoteDescription(r)
    \/ \E ok \in BOOLEAN : CreateAnswer(r, ok)
    \/ \E ok \in BOOLEAN : SetLocalDescription(r, ok)
    \/ GatherRecv(r)
    \/ LocalDescription(r)
    \/ Respond(r)

\* What the ICE agent and the remote peer do to one request's connection.
PeerStep(r) ==
    \/ GatherComplete(r)
    \/ GatherStall(r)
    \/ PeerDisconnect(r)

\* ---------------------------------------------------------------- capture

\* ServerAfterCaptureError, had the error been propagated out of main.
ServerAfterCaptureErrorExit(s) == "exited"

\* main.rs: the spawned capture task only logs the error capture::run
\* returned; nothing is propagated to main, whose state is left as it was.
ServerAfterCaptureError(s) == s

\* capture::run returns Err(why): the capture task ends, logged by main.
CaptureFail(why) ==
    /\ capture' = "failed"
    /\ captureErr' = why
    /\ log' = log \cup {<<"capture_loop_error", 0>>}
    /\ server' = ServerAfterCaptureError(server)

\* ReturnReady, had the callback awaited the tasks it spawned.
ReturnReadyJoined(ts) == \A i \in DOMAIN ts : ts[i].st \in {"written", "failed"}

\* rt.spawn(..) returns at once: on_frame_arrived may return whatever the
\* state of the tasks it has spawned.
ReturnReady(ts) == TRUE

\* OnWriteResult, had a failed write been submitted again.
OnWriteResultRetry(t, ok) == [t EXCEPT !.st = IF ok THEN "written" ELSE "spawned"]

\* The spawned task's `if let Err(e) = track.write_sample(..).await`: an error
\* is logged, and the task ends either way.
OnWriteResult(t, ok) == [t EXCEPT !.st = IF ok THEN "written" ELSE "failed"]

\* capture::run: Monitor::primary()?, Settings::new, spawn_blocking(start)
CaptureRun(ok) ==
    /\ capture = "spawned"
    /\ IF ok
       THEN /\ capture' = "starting"
            /\ UNCHANGED <<captureErr, log, server>>
       ELSE CaptureFail("no_display")
    /\ UNCHANGED <<peers, lock, offer, conn, cb, frames, tasks, encoded, inputVars, pixelVars>>

\* FrameHandler::new: Monitor::primary()?, H264Encoder::new(w, h, fps)?
FrameHandlerNew(out) ==
    /\ capture = "starting"
    /\ IF out = "ok"
       THEN /\ capture' = "capturing"
            /\ UNCHANGED <<captureErr, log, server>>
       ELSE CaptureFail(out)
    /\ UNCHANGED <<peers, lock, offer, conn, cb, frames, tasks, encoded, inputVars, pixelVars>>

\* HandlerFree, had a frame been delivered while the last one was in work.
HandlerFreeAlways(c) == TRUE

\* on_frame_arrived takes &mut self and is called from the one capture
\* thread: the next call starts when the last has returned.
HandlerFree(c) == c = "idle"

\* on_frame_arrived is called: frame.buffer()?.as_raw_nopadding_buffer()?
FrameArrived(ok) ==
    /\ capture = "capturing"
    /\ HandlerFree(cb)
    /\ frames < MaxFrames
    /\ frames' = frames + 1
    /\ IF ok
       THEN /\ cb' = "encode"
            /\ UNCHANGED <<capture, captureErr, log, server>>
       ELSE /\ cb' = "idle"
            /\ CaptureFail("buffer")
    /\ UNCHANGED <<peers, lock, offer, conn, tasks, encoded, inputVars, pixelVars>>

\* NalIsEmpty, had the check for an empty output been left out.
NalIsEmptyNever(out) == FALSE

\* nal.is_empty(): the encoder buffered the frame and returned no bytes.
NalIsEmpty(out) == out = "empty"

\* self.encoder.encode_bgra(raw)?; if nal.is_empty() { return Ok(()) }
EncodeBgra(out) ==
    /\ cb = "encode"
    /\ encoded' = Append(encoded, out)
    /\ IF out = "err"
       THEN /\ cb' = "idle"
            /\ CaptureFail("encode")
       ELSE /\ cb' = IF NalIsEmpty(out) THEN "idle" ELSE "spawn"
            /\ UNCHANGED <<capture, captureErr, log, server>>
    /\ UNCHANGED <<peers, lock, offer, conn, frames, tasks, inputVars, pixelVars>>

\* Submit, had the new task been put ahead of the ones spawned before it.
SubmitAhead(ts, t) == <<t>> \o ts

\* rt.spawn(task): the task joins the runtime's tasks, after the earlier ones.
Submit(ts, t) == Append(ts, t)

\* self.rt.spawn(async move { track.write_sample(..).await .. })
SpawnWrite ==
    /\ cb = "spawn"
    /\ tasks' = Submit(tasks, [frame |-> frames, st |-> "spawned", attempts |-> 0])
    /\ cb' = "return"
    /\ UNCHANGED <<offerVars, log, capture, captureErr, frames, encoded, inputVars, pixelVars>>

\* Ok(()) after the spawn
CallbackReturn ==
    /\ cb = "return"
    /\ ReturnReady(tasks)
    /\ cb' = "idle"
    /\ UNCHANGED <<offerVars, log, capture, captureErr, frames, tasks, encoded, inputVars, pixelVars>>

\* The capture session ends: on_closed, FrameHandler::start returns Ok.
CaptureClosed ==
    /\ capture = "capturing"
    /\ cb = "idle"
    /\ capture' = "closed"
    /\ UNCHANGED <<offerVars, log, captureErr, cb, frames, tasks, encoded, inputVars, pixelVars>>

\* The runtime polls a spawned task: track.write_sample(&sample) begins.
WriteStart(i) ==
    /\ tasks[i].st = "spawned"
    /\ tasks' = [tasks EXCEPT ![i] = [@ EXCEPT !.st = "writing",
                                               !.attempts = @ + 1]]
    /\ UNCHANGED <<offerVars, log, capture, captureErr, cb, frames, encoded, inputVars, pixelVars>>

\* write_sample(..).await resolves; error!("write_sample: {e}") on Err.
WriteDone(i, ok) ==
    /\ tasks[i].st = "writing"
    /\ tasks' = [tasks EXCEPT ![i] = OnWriteResult(@, ok)]
    /\ log' = IF ok THEN log ELSE log \cup {<<"write_sample", i>>}
    /\ UNCHANGED <<offerVars, capture, captureErr, cb, frames, encoded, inputVars, pixelVars>>

\* The steps of the capture thread.
CaptureThreadStep ==
    \/ \E ok \in BOOLEAN : FrameArrived(ok)
    \/ \E out \in {"nal", "empty", "err"} : EncodeBgra(out)
    \/ SpawnWrite
    \/ CallbackReturn
    \/ CaptureClosed

\* ------------------------------------------------------------ input channel

Num(n) == [k |-> "num", n |-> n, s |-> ""]
Str(s) == [k |-> "str", n |-> 0, s |-> s]

\* A message body: whether its bytes are UTF-8, what the text is as JSON
\* ("object", "scalar", or "invalid"), and the members of a JSON object.
Text(json, obj) == [utf8 |-> TRUE, json |-> json, obj |-> obj]

Payloads ==
    { [utf8 |-> FALSE, json |-> "invalid", obj |-> [raw |-> Str("\\xff")]],
      Text("invalid", [raw |-> Str("not json")]),
      Text("scalar", [raw |-> Num(42)]),
      Text("object", [type |-> Str("mouse_move"), x |-> Num(1), y |-> Num(2)]),
      Text("object", [type |-> Str("mouse_move"), x |-> Num(1)]),
      Text("object", [type |-> Str("fly"), x |-> Num(1), y |-> Num(2)]),
      Text("object", [x |-> Num(1), y |-> Num(2)]),
      Text("object", [type |-> Str("key_down"), code |-> Str("KeyA")]),
      Text("object", [type |-> Str("key_down"), code |-> Num(65)]),
      Text("object", [type |-> Str("mouse_down"), x |-> Num(1), y |-> Num(2),
                      button |-> Num(300)]),
      Text("object", [type |-> Str("mouse_up"), x |-> Num(1), y |-> Num(2),
                      button |-> Num(0), extra |-> Num(7)]) }

\* enum InputEvent, #[serde(tag = "type", rename_all = "snake_case")]: the
\* members each variant requires and their types.
InputEvent ==
    [mouse_move   |-> [x |-> "f64", y |-> "f64"],
     mouse_down   |-> [x |-> "f64", y |-> "f64", button |-> "u8"],
     mouse_up     |-> [x |-> "f64", y |-> "f64", button |-> "u8"],
     mouse_scroll |-> [dx |-> "f64", dy |-> "f64"],
     key_down     |-> [code |-> "String"],
     key_up       |-> [code |-> "String"]]

\* Whether a JSON value deserializes as a field of the given Rust type.
Fits(v, ty) ==
    CASE ty = "f64"    -> v.k = "num"
      [] ty = "u8"     -> v.k = "num" /\ v.n \in 0..255
      [] ty = "String" -> v.k = "str"

\* std::str::from_utf8(&msg.data)
FromUtf8(p) == p.utf8

\* serde_json::from_str::<InputEvent>(text) is Ok
FromStrOk(p) ==
    /\ p.json = "object"
    /\ "type" \in DOMAIN p.obj
    /\ p.obj.type.k = "str"
    /\ p.obj.type.s \in DOMAIN InputEvent
    /\ \A f \in DOMAIN InputEvent[p.obj.type.s] :
         /\ f \in DOMAIN p.obj
         /\ Fits(p.obj[f], InputEvent[p.obj.type.s][f])

\* The InputEvent from_str returns: the variant the tag names with its own
\* fields; other members of the object are ignored.
FromStr(p) ==
    [variant |-> p.obj.type.s,
     fields  |-> [f \in DOMAIN InputEvent[p.obj.type.s] |-> p.obj[f]]]

\* Inject, had the event been queued ahead of the earlier ones.
InjectAhead(inj, n, ev) == <<[msg |-> n, ev |-> ev]>> \o inj

\* inject(ev) is called with the decoded event of message number n.
Inject(inj, n, ev) == Append(inj, [msg |-> n, ev |-> ev])

\* HandlerAfter, had a message that does not decode ended the handler.
HandlerAfterDropOnError(h, decoded) == h /\ decoded

\* The on_message closure stays installed whatever a message held.
HandlerAfter(h, decoded) == h

\* handle_data_channel: the peer opened a data channel; dc.on_message(..)
HandleDataChannel ==
    /\ chan = "none"
    /\ chan' = "open"
    /\ handler' = TRUE
    /\ UNCHANGED <<offerVars, log, captureVars, received, injected, pixelVars>>

\* A message arrives on the channel and the on_message closure, if still
\* installed, runs on it.
OnMessage(p) ==
    /\ chan = "open"
    /\ Len(received) < MaxMsgs
    /\ received' = Append(received, p)
    /\ LET n == Len(received) + 1
           decoded == FromUtf8(p) /\ FromStrOk(p)
       IN  IF handler
           THEN /\ injected' = IF decoded THEN Inject(injected, n, FromStr(p))
                                          ELSE injected
                /\ log' = IF FromUtf8(p) /\ ~FromStrOk(p)
                          THEN log \cup {<<"bad_input", n>>}
                          ELSE log
                /\ handler' = HandlerAfter(handler, decoded)
           ELSE UNCHANGED <<injected, log, handler>>
    /\ UNCHANGED <<offerVars, captureVars, chan, pixelVars>>

\* ------------------------------------------------------- pixel conversion

\* Monitor widths and heights: the even ones (bgra_to_yuv420's precondition).
Sides == {2 * k : k \in 1..MaxHalf}

\* Screen colours as the four bytes of a BGRA8 pixel: black, red, green, blue.
Palette ==
    { <<0, 0, 0, 255>>, <<0, 0, 255, 255>>, <<0, 255, 0, 255>>,
      <<255, 0, 0, 255>> }

\* A w x h frame buffer of one colour.
Uniform(w, h, c) == [i \in 1..(w * h * 4) |-> c[((i - 1) % 4) + 1]]

\* The frame buffer with pixel number p (row-major, from 0) set to colour c.
WithPixel(buf, p, c) ==
    [i \in DOMAIN buf |-> IF (i - 1) \div 4 = p THEN c[((i - 1) % 4) + 1]
                                                 ELSE buf[i]]

\* The conversion formulas, in thousandths (the f32 products are exact to
\* far less than the distance of these colours' values from a whole number).
YOf(r, g, b) == 16000 + 257 * r + 504 * g + 98 * b
UOf(r, g, b) == 128000 - 148 * r - 291 * g + 439 * b
VOf(r, g, b) == 128000 + 439 * r - 368 * g - 71 * b

\* x.clamp(0.0, 255.0) as u8, of a value in thousandths.
ClampU8(x) == (IF x < 0 THEN 0 ELSE IF x > 255000 THEN 255000 ELSE x) \div 1000

\* VOff, had the V plane been started where the U plane starts.
VOffAtU(pixels) == pixels

\* u_off and v_off: the planes follow the luma plane.
UOff(pixels) == pixels
VOff(pixels) == pixels + pixels \div 4

\* IsChromaSample, had only the column been tested.
IsChromaSampleEvenCol(row, col) == col % 2 = 0

\* if row % 2 == 0 && col % 2 == 0
IsChromaSample(row, col) == row % 2 = 0 /\ col % 2 = 0

\* The stores data[k] = v that the body of the two loops makes for pixel
\* number p (row p / w, column p % w), in order, each as <<k, v>>.
Stores(buf, w, h, p) ==
    LET row == p \div w
        col == p % w
        i == (row * w + col) * 4
        b == buf[i + 1]
        g == buf[i + 2]
        r == buf[i + 3]
        ci == (row \div 2) * (w \div 2) + (col \div 2)
    IN  <<<<row * w + col, ClampU8(YOf(r, g, b))>>>> \o
        (IF IsChromaSample(row, col)
         THEN << <<UOff(w * h) + ci, ClampU8(UOf(r, g, b))>>,
                 <<VOff(w * h) + ci, ClampU8(VOf(r, g, b))>> >>
         ELSE <<>>)

\* for row in 0..h { for col in 0..w { .. } } over vec![0u8; pixels + pixels/2]:
\* all the stores made are <<p, j, k, v>>, the j-th store of pixel p; a byte
\* holds the value of the last store made to it, 0 if none was, and writes
\* counts the stores made to it.
Conversion(buf, w, h) ==
    LET n == w * h + (w * h) \div 2
        all == UNION {{<<p, j>> \o Stores(buf, w, h, p)[j] :
                         j \in DOMAIN Stores(buf, w, h, p)} :
                      p \in 0..(w * h - 1)}
        to == [k \in 0..(n - 1) |-> {s \in all : s[3] = k}]
        last(k) == CHOOSE s \in to[k] :
                     \A o \in to[k] : \/ o[1] < s[1]
                                      \/ o[1] = s[1] /\ o[2] <= s[2]
    IN  [data |-> [k \in 1..n |-> IF to[k - 1] = {} THEN 0 ELSE last(k - 1)[4]],
         writes |-> [k \in 1..n |-> Cardinality(to[k - 1])]]

\* bgra_to_yuv420(bgra, w, h): the YUVBuffer's bytes.
BgraToYuv420(buf, w, h) == Conversion(buf, w, h).data

\* H264Encoder::new(w, h, TARGET_FPS) with the monitor's dimensions.
EncoderNew(w, h) ==
    /\ width = 0
    /\ width' = w
    /\ height' = h
    /\ UNCHANGED <<offerVars, log, captureVars, inputVars, bgra, yuv, changed>>

\* encode_bgra is given the first frame: a screen of the one colour c.
FirstFrame(c) ==
    /\ width # 0
    /\ bgra = <<>>
    /\ bgra' = Uniform(width, height, c)
    /\ yuv' = BgraToYuv420(bgra', width, height)
    /\ UNCHANGED <<offerVars, log, captureVars, inputVars, width, height,
                   changed>>

\* One pixel of the screen changes colour and encode_bgra is given the frame.
NextFrame(p, c) ==
    /\ yuv # <<>>
    /\ ~changed
    /\ p < width * height
    /\ bgra' = WithPixel(bgra, p, c)
    /\ bgra' # bgra
    /\ yuv' = BgraToYuv420(bgra', width, height)
    /\ changed' = TRUE
    /\ UNCHANGED <<offerVars, log, captureVars, inputVars, width, height>>

\* ------------------------------------------------------------ specifications

Init ==
    /\ server = "starting"
    /\ peers = <<>>
    /\ lock = None
    /\ offer = [r \in Requests |-> OfferInit]
    /\ conn = [r \in Requests |-> "none"]
    /\ log = {}
    /\ capture = "spawned"
    /\ captureErr = "none"
    /\ cb = "idle"
    /\ frames = 0
    /\ tasks = <<>>
    /\ encoded = <<>>
    /\ chan = "none"
    /\ handler = FALSE
    /\ received = <<>>
    /\ injected = <<>>
    /\ width = 0
    /\ height = 0
    /\ bgra = <<>>
    /\ yuv = <<>>
    /\ changed = FALSE

NextOffer ==
    \/ \E ok \in BOOLEAN : Bind(ok)
    \/ \E r \in Requests : OfferStep(r)
    \/ \E r \in Requests : PeerStep(r)

SpecOffer == Init /\ [][NextOffer]_vars

\* The capture pipeline alone.
NextCapture ==
    \/ \E ok \in BOOLEAN : CaptureRun(ok)
    \/ \E out \in {"ok", "no_display", "encoder_new"} : FrameHandlerNew(out)
    \/ CaptureThreadStep
    \/ \E i \in DOMAIN tasks : WriteStart(i)
    \/ \E i \in DOMAIN tasks, ok \in BOOLEAN : WriteDone(i, ok)

SpecCapture == Init /\ [][NextCapture]_vars

\* An arbitrary request, followed beside the capture pipeline.
Probe == CHOOSE r \in Requests : TRUE

\* main(): the capture task, the server, and one negotiation.
NextMain ==
    \/ NextCapture
    \/ \E ok \in BOOLEAN : Bind(ok)
    \/ OfferStep(Probe)
    \/ PeerStep(Probe)

SpecMain == Init /\ [][NextMain]_vars

\* One input data channel.
NextInput ==
    \/ HandleDataChannel
    \/ \E p \in Payloads : OnMessage(p)

SpecInput == Init /\ [][NextInput]_vars

\* The pixel format conversion of the frames of one capture session.
NextConvert ==
    \/ \E w \in Sides, h \in Sides : EncoderNew(w, h)
    \/ \E c \in Palette : FirstFrame(c)
    \/ \E p \in 0..(4 * MaxHalf * MaxHalf - 1), c \in Palette : NextFrame(p, c)

SpecConvert == Init /\ [][NextConvert]_vars

\* The whole program.
Next ==
    \/ NextOffer
    \/ NextCapture
    \/ NextInput
    \/ NextConvert

Spec == Init /\ [][Next]_vars

\* The negotiations under the scheduling the runtime gives them: a request
\* that has arrived and can take a step takes one (tokio polls every ready
\* task and its Mutex is fair), and an ICE agent that has not stalled
\* finishes gathering.
FairOffer ==
    /\ SpecOffer
    /\ \A r \in Requests :
         /\ WF_vars(offer[r].pc # "idle" /\ OfferStep(r))
         /\ WF_vars(GatherComplete(r))

\* ------------------------------------------------------------------ claims

\* The registry entry, if any, made for request r.
EntryOf(r) == {id \in DOMAIN peers : peers[id] = r}

\* C1: whenever POST /offer fails, the peer registry holds no entry for that
\* request once the handler has returned.
C1_FailedOfferNotRegistered ==
    \A r \in Requests : offer[r].resp = "error" => EntryOf(r) = {}

\* C2 as stated: the local description is never published before ICE
\* gathering has completed, and a session is Active only after publication.
C2_PublishedOnlyAfterGathering ==
    \A r \in Requests :
        /\ offer[r].local => offer[r].gather = "complete"
        /\ offer[r].resp = "answer" => offer[r].local

\* C2 amended: the local description is published before the wait for ICE
\* gathering begins, and a session is Active only after the publication and
\* after gathering has completed.
C2_ActiveAfterPublicationAndGathering ==
    \A r \in Requests :
        /\ offer[r].pc \in {"recv", "local_desc"} => offer[r].local
        /\ offer[r].result = "ok" =>
             offer[r].local /\ offer[r].gather = "complete"

\* C2 witness: a session is Active.
C2_Witness == \E r \in Requests : offer[r].resp = "answer"

\* Request r has passed the registration step of do_offer.
PastInsert(r) == offer[r].id # None /\ offer[r].pc # "insert"

\* C3: two offers handled concurrently get distinct session identifiers, and
\* once both have passed the registration step both identifiers are in the
\* registry, each mapped to its own peer connection.
C3_ConcurrentOffersBothRegistered ==
    \A r1, r2 \in Requests :
        (r1 # r2 /\ PastInsert(r1) /\ PastInsert(r2)) =>
            /\ offer[r1].id # offer[r2].id
            /\ offer[r1].id \in DOMAIN peers /\ peers[offer[r1].id] = r1
            /\ offer[r2].id \in DOMAIN peers /\ peers[offer[r2].id] = r2

\* C3 witness: two requests are in flight at once, both past registration.
C3_Witness ==
    \E r1, r2 \in Requests :
        /\ r1 # r2
        /\ PastInsert(r1) /\ offer[r1].pc # "done"
        /\ PastInsert(r2) /\ offer[r2].pc # "done"

\* The steps of on_frame_arrived, from the frame's arrival to its return.
CallbackStep ==
    \/ \E ok \in BOOLEAN : FrameArrived(ok)
    \/ \E out \in {"nal", "empty", "err"} : EncodeBgra(out)
    \/ SpawnWrite
    \/ CallbackReturn

\* C4: the capture callback never waits on a sample write: while capture
\* runs, the callback can always take its next step (accept the next frame,
\* encode it, spawn the write, return), whatever the spawned writes are doing.
C4_CallbackNeverWaits ==
    (capture = "capturing" /\ (cb # "idle" \/ frames < MaxFrames)) =>
        ENABLED CallbackStep

\* C4 witness: a write has not finished and a later frame has been accepted
\* and encoded.
C4_Witness ==
    \E i \in DOMAIN tasks :
        /\ tasks[i].st \in {"spawned", "writing"}
        /\ tasks[i].frame < frames
        /\ cb = "spawn"

\* C5: a failed track write is logged and dropped: no write is attempted
\* twice, a failed write stays failed and submits nothing new, its failure
\* leaves the capture callback and the capture task as they were, and a later
\* encoded sample is still submitted.
C5_FailedWriteDropped ==
    /\ [](\A i \in DOMAIN tasks :
            /\ tasks[i].attempts <= 1
            /\ tasks[i].st = "failed" => <<"write_sample", i>> \in log)
    /\ [](cb = "spawn" => ENABLED SpawnWrite)
    /\ [][\A i \in DOMAIN tasks :
            /\ (tasks[i].st = "writing" /\ tasks'[i].st = "failed") =>
                 /\ UNCHANGED <<capture, captureErr, cb, frames>>
                 /\ Len(tasks') = Len(tasks)
            /\ tasks[i].st = "failed" => tasks'[i] = tasks[i]]_vars

\* C5 witness: the write of an earlier frame's sample has failed and the
\* sample of the current frame has been submitted.
C5_Witness ==
    /\ \E i \in DOMAIN tasks : tasks[i].st = "failed" /\ tasks[i].frame < frames
    /\ cb = "return"
    /\ tasks[Len(tasks)].frame = frames

\* C6: every session that has been closed is absent from the peer registry.
C6_ClosedSessionsRemoved ==
    \A id \in DOMAIN peers : conn[peers[id]] # "closed"

\* C7: a capture error at capture start stops the capture task only: it is
\* logged, no frame is processed and no sample is ever submitted for writing,
\* and the server still binds (unless the port cannot be bound) and still
\* takes /offer requests.
C7_CaptureStartErrorIsContained ==
    captureErr \in {"no_display", "encoder_new"} =>
        /\ capture = "failed"
        /\ frames = 0
        /\ tasks = <<>>
        /\ <<"capture_loop_error", 0>> \in log
        /\ \/ server \in {"listening", "bind_failed"}
           \/ ENABLED Bind(TRUE)
        /\ (server = "listening" /\ offer[Probe].pc = "idle") =>
             ENABLED HandleOffer(Probe, "good")

\* C7 witness: capture failed at its start and an offer has been answered.
C7_Witness ==
    /\ captureErr \in {"no_display", "encoder_new"}
    /\ offer[Probe].resp = "answer"

\* Message number n of the channel decodes as an InputEvent.
Decodes(n) == FromUtf8(received[n]) /\ FromStrOk(received[n])

\* C8: a malformed message never closes the channel or removes its handler:
\* every message that decodes, whatever came before it, has been dispatched.
C8_MalformedKeepsChannel ==
    /\ chan = "open" => handler
    /\ \A n \in DOMAIN received :
         Decodes(n) => \E k \in DOMAIN injected : injected[k].msg = n

\* C8 witness: {"type":"mouse_move","x":1,"y":2} arrived after a message that
\* is not JSON and was dispatched as a mouse_move event.
C8_Witness ==
    \E m, n \in DOMAIN received :
        /\ m < n
        /\ received[m] = Text("invalid", [raw |-> Str("not json")])
        /\ received[n] = Text("object", [type |-> Str("mouse_move"),
                                        x |-> Num(1), y |-> Num(2)])
        /\ \E k \in DOMAIN injected :
             /\ injected[k].msg = n
             /\ injected[k].ev.variant = "mouse_move"
             /\ injected[k].ev.fields = [x |-> Num(1), y |-> Num(2)]

\* C9: the inject calls are exactly the messages that decode, one call per
\* message, each with that message's event, in arrival order, and made by the
\* time the message has been handled.
C9_OneInjectPerDecodedMessageInOrder ==
    /\ Len(injected) = Cardinality({n \in DOMAIN received : Decodes(n)})
    /\ \A k \in DOMAIN injected :
         /\ injected[k].msg \in DOMAIN received
         /\ Decodes(injected[k].msg)
         /\ injected[k].ev = FromStr(received[injected[k].msg])
    /\ \A k1, k2 \in DOMAIN injected :
         k1 < k2 => injected[k1].msg < injected[k2].msg

\* C9 witness: two messages were dispatched and one was discarded.
C9_Witness == Len(injected) = 2 /\ Len(received) = 3

\* C10: when ICE gathering stalls for one offer, that offer never completes
\* (it stays at its gathering wait), every offer that has arrived and whose
\* own gathering has not stalled ends completed, and registered sessions stay
\* registered.
C10_StallAffectsOnlyItsOffer ==
    /\ \A r \in Requests :
         <>[](\/ offer[r].pc \in {"idle", "done"}
              \/ offer[r].gather = "stalled")
    /\ [](\A r \in Requests :
            offer[r].gather = "stalled" => offer[r].pc = "recv")
    /\ [][\A id \in DOMAIN peers :
            id \in DOMAIN peers' /\ peers'[id] = peers[id]]_vars

\* C10 witness: one offer's gathering has stalled and another offer has been
\* answered.
C10_Witness ==
    \E r1, r2 \in Requests :
        /\ r1 # r2
        /\ offer[r1].gather = "stalled"
        /\ offer[r2].resp = "answer"

\* Request r is suspended on an awaited network operation of its
\* negotiation: set_remote_description, create_answer, set_local_description
\* or the wait for ICE gathering.
AwaitsNetwork(r) ==
    offer[r].pc \in {"set_remote", "create_answer", "set_local", "recv"}

\* C11: the peer-registry lock is never held by a do_offer invocation that is
\* suspended on an awaited network operation.
C11_LockNotHeldAcrossAwait ==
    \A r \in Requests : AwaitsNetwork(r) => lock # r

\* C11 witness: one request waits for ICE gathering while another holds the
\* registry lock.
C11_Witness ==
    \E r1, r2 \in Requests :
        /\ offer[r1].pc = "recv"
        /\ lock = r2

\* C15: the answer a successful do_offer returns was read after ICE gathering
\* had completed: no answer is delivered, or about to be, while that session's
\* gathering is still in progress.
C15_AnswerReadAfterGathering ==
    \A r \in Requests :
        /\ offer[r].readAt \in {"none", "complete"}
        /\ offer[r].resp = "answer" =>
             offer[r].readAt = "complete" /\ offer[r].gather = "complete"

\* C15 witness: an answer has been delivered.
C15_Witness ==
    \E r \in Requests : offer[r].resp = "answer" /\ offer[r].readAt = "complete"

\* C16 as stated: the remote description is applied, then the answer is
\* generated, then the track and the data channel handler are attached, then
\* the gathering wait; the track is never attached before the remote
\* description has been applied.
C16_TrackAfterRemoteAndAnswer ==
    \A r \in Requests :
        /\ offer[r].answer => offer[r].remote
        /\ offer[r].track => offer[r].answer
        /\ offer[r].dcHandler => offer[r].answer
        /\ offer[r].pc = "recv" => offer[r].track /\ offer[r].dcHandler

\* C16 amended: the track and the data channel handler are attached first,
\* then the session is registered, then the remote description is applied,
\* then the answer is generated, then the local description is set, then the
\* gathering wait; the remote description is never applied before the track
\* has been attached.
C16_TrackBeforeRemote ==
    \A r \in Requests :
        /\ offer[r].id # None => offer[r].track /\ offer[r].dcHandler
        /\ offer[r].remote => offer[r].track /\ PastInsert(r)
        /\ offer[r].answer => offer[r].remote
        /\ offer[r].local => offer[r].answer
        /\ offer[r].pc = "recv" => offer[r].local

\* C16 witness: a negotiation is at its gathering wait.
C16_Witness ==
    \E r \in Requests :
        offer[r].pc = "recv" /\ offer[r].track /\ offer[r].remote

\* C18: no step of the program changes an existing registry entry: every
\* identifier registered before the step is registered after it, mapped to
\* the same peer connection, and a step of one request leaves every other
\* request's negotiation and connection as they were.
C18_OfferLeavesOtherSessions ==
    [][/\ \A id \in DOMAIN peers :
            id \in DOMAIN peers' /\ peers'[id] = peers[id]
       /\ \A r1, r2 \in Requests :
            (r1 # r2 /\ offer'[r1].pc # offer[r1].pc) =>
                /\ offer'[r2] = offer[r2]
                /\ conn'[r2] = conn[r2]
                /\ EntryOf(r2)' = EntryOf(r2)]_vars

\* C18 witness: a second offer, a failed one, has been handled after a first
\* session was registered, and both entries are in the registry.
C18_Witness ==
    \E r1, r2 \in Requests :
        /\ r1 # r2
        /\ offer[r1].resp = "answer" /\ EntryOf(r1) # {}
        /\ offer[r2].resp = "error" /\ EntryOf(r2) # {}

\* The tasks spawned for frame k.
TasksOf(k) == {i \in DOMAIN tasks : tasks[i].frame = k}

\* C12: after N frames the samples submitted number at most N: a frame whose
\* encoder output is empty (or whose encoding failed) submits none, a frame
\* with output submits exactly one (once its spawn is reached), and the
\* samples are submitted in the order of their frames.
C12_AtMostOneSamplePerFrameInOrder ==
    /\ Len(tasks) <= frames
    /\ \A i, j \in DOMAIN tasks : i < j => tasks[i].frame < tasks[j].frame
    /\ \A i \in DOMAIN tasks : tasks[i].frame \in DOMAIN encoded
    /\ \A k \in DOMAIN encoded :
         Cardinality(TasksOf(k)) =
             IF encoded[k] = "nal" /\ ~(k = frames /\ cb = "spawn") THEN 1 ELSE 0

\* C12 witness: three frames were delivered, one with empty output, and two
\* samples were submitted.
C12_Witness ==
    /\ frames = 3
    /\ Len(tasks) = 2
    /\ \E k \in DOMAIN encoded : encoded[k] = "empty"

\* C17: frame processing is sequential: while a frame is being encoded every
\* earlier frame has been encoded, and outside an encode_bgra call every
\* frame accepted has been encoded (or its buffer could not be read, which
\* ends capture), whatever the write tasks of earlier frames are doing.
C17_OneFrameAtATime ==
    /\ cb = "encode" => Len(encoded) = frames - 1
    /\ cb # "encode" =>
         \/ Len(encoded) = frames
         \/ captureErr = "buffer" /\ Len(encoded) = frames - 1

\* C17 witness: a frame is being encoded while the write of an earlier
\* frame's sample is still running.
C17_Witness ==
    /\ cb = "encode"
    /\ \E i \in DOMAIN tasks : tasks[i].st = "writing"

\* C19 as stated: the write_sample call for an earlier frame's sample begins
\* before the one for a later frame's sample.
C19_WritesBeginInCaptureOrder ==
    \A i, j \in DOMAIN tasks :
        (i < j /\ tasks[j].attempts >= 1) => tasks[i].attempts >= 1

\* C19 amended: the write tasks are spawned in capture order, each begins
\* its write_sample call only after it was spawned, and the calls of
\* different tasks may begin in either order.
C19_SpawnedInCaptureOrder ==
    /\ \A i, j \in DOMAIN tasks : i < j => tasks[i].frame < tasks[j].frame
    /\ \A i \in DOMAIN tasks :
         /\ tasks[i].frame <= frames
         /\ tasks[i].st = "spawned" <=> tasks[i].attempts = 0

\* C19 witness: the write of a later frame's sample has begun while the task
\* of an earlier frame's sample has not started.
C19_Witness ==
    \E i, j \in DOMAIN tasks :
        /\ i < j
        /\ tasks[i].frame < tasks[j].frame
        /\ tasks[i].st = "spawned"
        /\ tasks[j].st = "writing"

\* ------------------------------------------------------------ C13, C14

\* The three colour bytes <<b, g, r>> of pixel number p of a frame buffer.
PixelAt(buf, p) == <<buf[4 * p + 1], buf[4 * p + 2], buf[4 * p + 3]>>

\* The luma and the two chroma bytes of a pixel's colour.
LumaOf(c) == ClampU8(YOf(c[3], c[2], c[1]))
ChromaUOf(c) == ClampU8(UOf(c[3], c[2], c[1]))
ChromaVOf(c) == ClampU8(VOf(c[3], c[2], c[1]))

\* The chroma planes of a converted frame of the given number of pixels.
ChromaPlanes(out, pixels) == SubSeq(out, pixels + 1, Len(out))

\* C13: for every BGRA image of even width and height, the buffer returned by
\* bgra_to_yuv420 has exactly width*height*3/2 bytes, each in 0..255: first a
\* luma plane of width*height bytes, byte p being the luma of pixel p, then a
\* plane of width*height/4 U bytes and a plane of width*height/4 V bytes, every
\* byte of the three planes being stored to.
C13_PlanarLayout ==
    yuv # <<>> =>
        LET pixels == width * height
            writes == Conversion(bgra, width, height).writes
        IN  /\ Len(yuv) = (pixels * 3) \div 2
            /\ \A k \in DOMAIN yuv : yuv[k] \in 0..255 /\ writes[k] >= 1
            /\ \A p \in 0..(pixels - 1) : yuv[p + 1] = LumaOf(PixelAt(bgra, p))
            /\ \A q \in 1..(pixels \div 4) :
                /\ \E p \in 0..(pixels - 1) :
                       yuv[pixels + q] = ChromaUOf(PixelAt(bgra, p))
                /\ \E p \in 0..(pixels - 1) :
                       yuv[pixels + pixels \div 4 + q] = ChromaVOf(PixelAt(bgra, p))

\* A 4 x 4 frame of red has been converted: 24 bytes, 16 of luma 81, then 4 of
\* U 90, then 4 of V 239.
C13_Witness ==
    /\ width = 4
    /\ height = 4
    /\ ~changed
    /\ Len(yuv) = 24
    /\ \A k \in 1..16 : yuv[k] = 81
    /\ \A k \in 17..20 : yuv[k] = 90
    /\ \A k \in 21..24 : yuv[k] = 239

\* C14: in every converted even-sized image the chroma entry of each 2x2 luma
\* block is stored to exactly once, in both planes, and holds the U and the V
\* of the block's top-left pixel; and a frame that differs from the previous
\* one only in pixels that are not the top-left of their block has the same
\* two chroma planes.
C14_ChromaFromTopLeftOnly ==
    /\ [](yuv # <<>> =>
            LET pixels == width * height
                writes == Conversion(bgra, width, height).writes
            IN  \A br \in 0..(height \div 2 - 1), bc \in 0..(width \div 2 - 1) :
                    LET ci == br * (width \div 2) + bc
                        tl == PixelAt(bgra, (2 * br) * width + 2 * bc)
                    IN  /\ writes[pixels + ci + 1] = 1
                        /\ writes[pixels + pixels \div 4 + ci + 1] = 1
                        /\ yuv[pixels + ci + 1] = ChromaUOf(tl)
                        /\ yuv[pixels + pixels \div 4 + ci + 1] = ChromaVOf(tl))
    /\ [][(/\ yuv # <<>>
           /\ \A br \in 0..(height \div 2 - 1), bc \in 0..(width \div 2 - 1) :
                  PixelAt(bgra', (2 * br) * width + 2 * bc)
                      = PixelAt(bgra, (2 * br) * width + 2 * bc))
          => ChromaPlanes(yuv', width * height)
                 = ChromaPlanes(yuv, width * height)]_vars

\* In a 4 x 4 frame of blue the pixel at row 1, column 1 has turned red: its
\* luma byte is red's, the chroma planes are still those of blue.
C14_Witness ==
    /\ width = 4
    /\ height = 4
    /\ changed
    /\ PixelAt(bgra, 5) = <<0, 0, 255>>
    /\ yuv[6] = 81
    /\ \A k \in 17..20 : yuv[k] = 239
    /\ \A k \in 21..24 : yuv[k] = 109

\* ------------------------------------------------------------ C20

\* C20: every payload received on the input channel that does not decode as
\* an InputEvent, be it invalid JSON, JSON with an unknown type tag or missing
\* fields, or bytes that are not valid UTF-8, has a log record.
C20_UndecodablePayloadLogged ==
    \A n \in DOMAIN received :
        ~Decodes(n) => <<"bad_input", n>> \in log

====
